---- MODULE Spec2Model ----
(***************************************************************************)
(* pin-cushion: a poller that follows the RSS feeds of Pinterest boards.   *)
(*                                                                         *)
(*   src/src/cushion.rs   Cushion: one board's state and its update cycle  *)
(*   src/src/download.rs  download_pin: probing the file extensions        *)
(*   src/src/commands.rs  start: one task per board, the ticking driver    *)
(*                                                                         *)
(* An Option value is a sequence: <<>> is None, <<x>> is Some(x).          *)
(***************************************************************************)
EXTENDS Naturals, Sequences, FiniteSets, TLC

VARIABLES
    config,     \* cfg.boards(), flattened: the board directory of each task
    disk,       \* per board directory: the content of its .cushion.toml
    files,      \* per board directory: the names of the downloaded files
    cushion,    \* per task: the Cushion it owns (<<>> before it is loaded)
    pc,         \* per task: where the task is
    cyc,        \* per task: the locals of the running update call
    chan,       \* the watch channel: its value, and whether tx is dropped
    unseen,     \* per task: its receiver has not yet returned chan's value
    driver,     \* where the ticking task is
    cancel,     \* the oneshot channel from start to the ticking task
    main,       \* where start is
    call,       \* one call of a function of download.rs: argument, result
    hist        \* the feed that the server of the board u/p1 holds, and the
                \* ids of its items whose download has succeeded

code == <<config, disk, files, cushion, pc, cyc, chan, unseen, driver, cancel, main>>
aside == <<call, hist>>
vars == <<config, disk, files, cushion, pc, cyc, chan, unseen, driver, cancel, main,
          call, hist>>
sched == <<chan, unseen, driver, cancel, main>>

-----------------------------------------------------------------------------
(* Bounds of the model *)

\* the longest feed a fetch returns
MaxFeedLen == 3

-----------------------------------------------------------------------------
(* Values *)

None == <<>>
Some(x) == <<x>>

\* Option::unwrap_or / unwrap_or_default
UnwrapOr(o, d) == IF o = None THEN d ELSE o[1]

\* "\u{fffd}", the value update compares for an item without a guid
REPLACEMENT == "U+FFFD"

\* the guid values a feed carries; the replacement character is a legal one
GuidValues == {"a", "b", REPLACEMENT}
Guids == {None} \cup {Some(g) : g \in GuidValues}

\* A string of download.rs is a sequence of pieces: the characters that the
\* regex of url_base_from_description tells apart stand alone ('/', '.',
\* '"', ' ', the newline), the literal text of the regex before its first
\* '/' is one piece (IMG), every other piece is a run of characters that
\* are none of these.
Q == "\""
HOST == "https://i.pinimg.com"
IMG == "img src=\"https://i.pinimg.com"

\* the description fields a feed carries: absent, without an image
\* reference, with one: <a></a> and
\* <img src="https://i.pinimg.com/236x/e1/e15feb.jpg">
DescrNoImg == <<"<a>", "<", "/", "a>">>
DescrImg == <<"<", IMG, "/", "236x", "/", "e1", "/", "e15feb", ".", "jpg", Q, ">">>
Descriptions == {None, Some(DescrNoImg), Some(DescrImg)}

Items == [guid : Guids, description : Descriptions]

RECURSIVE SeqsUpTo(_, _)
SeqsUpTo(S, n) ==
    IF n = 0 THEN {<<>>}
    ELSE LET shorter == SeqsUpTo(S, n - 1)
         IN shorter \cup {<<x>> \o s : x \in S, s \in {q \in shorter : Len(q) = n - 1}}

Feeds == SeqsUpTo(Items, MaxFeedLen)

-----------------------------------------------------------------------------
(* src/src/download.rs *)

\* file_extensions::EXTENSIONS, each as its Display prints it
EXTENSIONS == <<"jpg", "jpeg", "png", "webm", "tiff", "gif", "jfif", "jiff">>

\* \S of the regex: IMG holds a space, so no run of \S goes through it
NonSpace(c) == c \notin {" ", "\n", IMG}

AllNonSpace(s, i, j) == \A k \in i..j : NonSpace(s[k])

\* .*" matches after position r: a '"' follows on the same line (IMG holds
\* one); (?m) changes ^ and $ only, '.' still stops at a newline
QuoteFollows(s, r) ==
    \E j \in (r + 1)..Len(s) :
        /\ s[j] \in {Q, IMG}
        /\ \A k \in (r + 1)..(j - 1) : s[k] # "\n"

\* (\S*\.) after the '/' at q: the positions of the '.' that can end it
GroupEnds(s, q) ==
    {r \in (q + 1)..Len(s) :
        s[r] = "." /\ AllNonSpace(s, q + 1, r - 1) /\ QuoteFollows(s, r)}

\* \S*?/ after the literal that starts at p: the positions of the '/' that
\* can end it so that the rest matches
SizeEnds(s, p) ==
    {q \in (p + 2)..Len(s) :
        s[q] = "/" /\ AllNonSpace(s, p + 2, q - 1) /\ GroupEnds(s, q) # {}}

\* the positions at which the regex matches
MatchStarts(s) ==
    {p \in 1..(Len(s) - 1) : s[p] = IMG /\ s[p + 1] = "/" /\ SizeEnds(s, p) # {}}

Least(S) == CHOOSE x \in S : \A y \in S : x <= y
Greatest(S) == CHOOSE x \in S : \A y \in S : x >= y

\* url_base_from_description, RE.captures(descr): the leftmost match, its
\* \S*? as short and its \S* as long as a match allows; then
\* format!("{}/originals/{}", &caps[1], &caps[2])
UrlBaseFromDescription(descr) ==
    IF MatchStarts(descr) = {}
    THEN None
    ELSE LET p == Least(MatchStarts(descr))
             q == Least(SizeEnds(descr, p))
             r == Greatest(GroupEnds(descr, q))
         IN  Some(<<HOST, "/", "originals", "/">> \o SubSeq(descr, q + 1, r))

\* url_base_with_extension
UrlBaseWithExtension(base, ext) == Append(base, ext)

\* url.rsplit('/').next(): what follows the last '/'
FileName(url) ==
    LET slashes == {i \in 1..Len(url) : url[i] = "/"}
    IN  IF slashes = {} THEN url ELSE SubSeq(url, Greatest(slashes) + 1, Len(url))

\* What the world answers to one download_pin call: per extension the
\* outcome of the GET (a network error, a non-success status, a success
\* status), whether the body then transfers, whether the file can be written
\* the first k-1 extensions answer f, the others succeed
Answers(k, f) == [i \in 1..Len(EXTENSIONS) |-> IF i < k THEN f ELSE "ok"]

World(resp, body, io) == [resp |-> resp, body |-> body, io |-> io]

\* the worlds of the model: the original is a png (behind a non-success
\* status or a network error of jpg and jpeg) that is saved, or whose body
\* or file fails, or no extension resolves
NetEnvs ==
    {World(Answers(3, f), TRUE, "ok") : f \in {"neterr", "status"}}
        \cup {World(Answers(Len(EXTENSIONS) + 1, f), TRUE, "ok") : f \in {"neterr", "status"}}
        \cup {World(Answers(3, "status"), FALSE, "ok")}
        \cup {World(Answers(3, "status"), TRUE, io) : io \in {"create", "write"}}

\* the worlds while several boards are polled
PollEnvs ==
    {World(Answers(3, "status"), TRUE, "ok"),
     World(Answers(Len(EXTENSIONS) + 1, "status"), TRUE, "ok"),
     World(Answers(3, "status"), FALSE, "ok")}

\* the for loop of download_pin from extension i on; reqs are the requests
\* issued so far
RECURSIVE Probe(_, _, _, _)

\* Probe with the error of send thrown on instead of the next extension
ProbeThrowsSendError(base, env, i, reqs) ==
    IF i > Len(EXTENSIONS)
    THEN [result |-> "false", requests |-> reqs, file |-> None]
    ELSE LET url == UrlBaseWithExtension(base, EXTENSIONS[i])
             sent == Append(reqs, url)
         IN  IF env.resp[i] = "neterr"
             THEN [result |-> "RemoteError", requests |-> sent, file |-> None]
             ELSE IF env.resp[i] # "ok"
             THEN Probe(base, env, i + 1, sent)
             ELSE IF ~env.body
             THEN [result |-> "RemoteError", requests |-> sent, file |-> None]
             ELSE IF env.io = "create"
             THEN [result |-> "IoError", requests |-> sent, file |-> None]
             ELSE IF env.io = "write"
             THEN [result |-> "IoError", requests |-> sent, file |-> Some(FileName(url))]
             ELSE [result |-> "true", requests |-> sent, file |-> Some(FileName(url))]

Probe(base, env, i, reqs) ==
    IF i > Len(EXTENSIONS)
    THEN [result |-> "false", requests |-> reqs, file |-> None]
    ELSE LET url == UrlBaseWithExtension(base, EXTENSIONS[i])
             sent == Append(reqs, url)
         IN  IF env.resp[i] # "ok"
             THEN Probe(base, env, i + 1, sent)
             ELSE IF ~env.body
             THEN [result |-> "RemoteError", requests |-> sent, file |-> None]
             ELSE IF env.io = "create"
             THEN [result |-> "IoError", requests |-> sent, file |-> None]
             ELSE IF env.io = "write"
             THEN [result |-> "IoError", requests |-> sent, file |-> Some(FileName(url))]
             ELSE [result |-> "true", requests |-> sent, file |-> Some(FileName(url))]

\* url_base_from_description of the descriptions that the feeds carry,
\* worked out once
UrlBases == [d \in {DescrNoImg, DescrImg} |-> UrlBaseFromDescription(d)]

\* download_pin: "true", "false", or the error it throws
DownloadPin(descr, env) ==
    LET base == IF descr \in DOMAIN UrlBases THEN UrlBases[descr]
                ELSE UrlBaseFromDescription(descr)
    IN  IF base = None
        THEN [result |-> "false", requests |-> <<>>, file |-> None]
        ELSE Probe(base[1], env, 1, <<>>)

-----------------------------------------------------------------------------
(* src/src/cushion.rs *)

PinDir == "pins"

\* the boards of the model, as (user, board)
BoardKeys == {[user |-> "u", board |-> "p1"], [user |-> "u", board |-> "p2"]}

\* Cushion::construct_path
ConstructPath(user, board) == <<PinDir, user, board>>

Paths == {ConstructPath(k.user, k.board) : k \in BoardKeys}

\* the url arguments of the model: a full feed url, or the last path segment
FullUrls == {"https://www.pinterest.com/u/p1.rss", "https://www.pinterest.com/u/p2.rss"}

\* Cushion::new (the directory it creates holds no file of the model)
NewCushion(user, board, url) ==
    [user |-> user, board |-> board,
     url |-> IF url \in FullUrls THEN url
             ELSE "https://www.pinterest.com/" \o user \o "/" \o url \o ".rss",
     path |-> ConstructPath(user, board),
     latest_download |-> ""]

\* toml::to_string_pretty(&self): the serialised fields in order, client
\* skipped
ToToml(c) ==
    << <<"user", c.user>>, <<"board", c.board>>, <<"url", c.url>>,
       <<"path", c.path>>, <<"latest_download", c.latest_download>> >>

TomlKeys(t) == {t[i][1] : i \in 1..Len(t)}
TomlGet(t, k) == t[CHOOSE i \in 1..Len(t) : t[i][1] = k][2]

\* toml::from_str: Some(cushion), or None for a DeserializeError (a field
\* is missing)
FromToml(t) ==
    IF {"user", "board", "url", "path", "latest_download"} \subseteq TomlKeys(t)
    THEN Some([user |-> TomlGet(t, "user"), board |-> TomlGet(t, "board"),
               url |-> TomlGet(t, "url"), path |-> TomlGet(t, "path"),
               latest_download |-> TomlGet(t, "latest_download")])
    ELSE None

\* a .cushion.toml that File::create has truncated and nothing was written to
EmptyFile == <<>>

\* Cushion::load from the file of a board directory: Some(cushion), or None
\* for the error it throws (no file, or one that does not parse)
Load(file) == IF file = None THEN None ELSE FromToml(file[1])

\* the guid of an item as update compares it with latest_download
GuidOrReplacement(item) == UnwrapOr(item.guid, REPLACEMENT)

\* channel.items().iter().take_while(|item| guid-or-replacement != latest)
RECURSIVE TakeWhile(_, _)
TakeWhile(feed, latest) ==
    IF feed = <<>> \/ GuidOrReplacement(Head(feed)) = latest
    THEN <<>>
    ELSE <<Head(feed)>> \o TakeWhile(Tail(feed), latest)

\* the locals of update, and what the cycle has done so far:
\*   latest, items, downloaded   the locals of that name
\*   fetched   the feed was received and parsed
\*   feed      channel.items() (kept until the first item is processed)
\*   pre       the Cushion and the board's file when update was called
\*   winLen    the length of the window take_while yields
\*   tried     download calls made; errs: those that returned an error
\*   boundary  the item the first download was made for
\*   saves     save calls made
\*   result    None while running, else <<"Ok", n>> or <<"Err", e>>
\* and, from the loop of the task until the next fetch:
\*   prev      how the last update call of the task ended
\*   pending   a tick was waiting for the task when that call had returned
NoCycle ==
    [latest |-> "", fetched |-> FALSE, feed |-> <<>>, items |-> <<>>, downloaded |-> 0,
     pre |-> None, preFile |-> None, winLen |-> 0, tried |-> 0, errs |-> 0,
     boundary |-> None, saves |-> 0, result |-> None,
     prev |-> "none", pending |-> FALSE]

Tasks == 1..Len(config)
PathOf(t) == cushion[t][1].path

\* the process is alive: its tasks run until main has returned and the
\* runtime is gone
Alive == main.at # "exited"

\* Return with an error that ends the tasks waiting for a tick
ReturnErrEndsWaiting(t, c, r) ==
    /\ pc' = [u \in DOMAIN pc |->
                 IF u = t THEN "returned"
                 ELSE IF r[1] = "Err" /\ pc[u] = "recv" THEN "cancelled" ELSE pc[u]]
    /\ cyc' = [cyc EXCEPT ![t] = [c EXCEPT !.result = Some(r)]]

\* update returns r
Return(t, c, r) ==
    /\ pc' = [pc EXCEPT ![t] = "returned"]
    /\ cyc' = [cyc EXCEPT ![t] = [c EXCEPT !.result = Some(r)]]

\* Finish with the save made for every count
FinishAlwaysSaves(t, c) ==
    /\ pc' = [pc EXCEPT ![t] = "save"]
    /\ cyc' = [cyc EXCEPT ![t] = c]

\* lines 90-94: save when something was downloaded, then return the count
Finish(t, c) ==
    IF c.downloaded >= 1
    THEN /\ pc' = [pc EXCEPT ![t] = "save"]
         /\ cyc' = [cyc EXCEPT ![t] = c]
    ELSE Return(t, c, <<"Ok", c.downloaded>>)

\* FetchFailed with the error taken for an empty feed
FetchFailedAsEmptyFeed(t, c, e) == Return(t, c, <<"Ok", 0>>)

\* lines 61-62, the ? operators: the request, the body or the parse has
\* failed and update throws the error
FetchFailed(t, c, e) == Return(t, c, <<"Err", e>>)

\* lines 61-72: the feed is fetched and parsed, the window is taken; an
\* empty window falls through to the return
UpdateFetch(t, feeds) ==
    /\ Alive
    /\ pc[t] = "update"
    /\ LET c0 == [NoCycle EXCEPT !.pre = cushion[t], !.preFile = disk[PathOf(t)]]
       IN  \/ \E e \in {"RemoteError", "RssError"} : FetchFailed(t, c0, e)
           \/ \E feed \in feeds :
                LET latest == cushion[t][1].latest_download
                    items == TakeWhile(feed, latest)
                    c == [c0 EXCEPT !.latest = latest, !.fetched = TRUE, !.feed = feed,
                                    !.items = items, !.winLen = Len(items)]
                IN  IF items = <<>>
                    THEN Finish(t, c)
                    ELSE /\ pc' = [pc EXCEPT ![t] = "boundary"]
                         /\ cyc' = [cyc EXCEPT ![t] = c]
    /\ UNCHANGED <<config, disk, files, cushion, sched>>

\* Cushion::download: the error of a missing description, else download_pin
Download(item, env) ==
    IF item.description = None
    THEN [result |-> "MissingDescriptionError", requests |-> <<>>, file |-> None]
    ELSE DownloadPin(item.description[1], env)

\* the directory of the board after a download
Written(dir, out) == IF out.file = None THEN dir ELSE dir \cup {out.file[1]}

\* NewMarker with the default of line 68 instead of the empty string
NewMarkerReplacement(item) == GuidOrReplacement(item)

\* lines 77-80: the guid of the item, or the empty string
NewMarker(item) == UnwrapOr(item.guid, "")

\* UpdateBoundary with latest_download set only once the window is done
UpdateBoundaryMarksLate(t, envs) ==
    /\ Alive
    /\ pc[t] = "boundary"
    /\ \E env \in envs :
        LET item == Head(cyc[t].items)
            out == Download(item, env)
            c == [cyc[t] EXCEPT !.feed = <<>>, !.items = Tail(@),
                                !.tried = @ + 1, !.boundary = Some(item)]
        IN  /\ files' = [files EXCEPT ![PathOf(t)] = Written(@, out)]
            /\ IF out.result \notin {"true", "false"}
               THEN /\ Return(t, [c EXCEPT !.errs = @ + 1], <<"Err", out.result>>)
                    /\ UNCHANGED cushion
               ELSE LET d == [c EXCEPT !.downloaded = IF out.result = "true" THEN @ + 1 ELSE @]
                    IN  IF d.items = <<>>
                        THEN /\ cushion' = [cushion EXCEPT
                                    ![t] = Some([@[1] EXCEPT !.latest_download = NewMarker(item)])]
                             /\ Finish(t, d)
                        ELSE /\ UNCHANGED cushion
                             /\ pc' = [pc EXCEPT ![t] = "rest"]
                             /\ cyc' = [cyc EXCEPT ![t] = d]
    /\ UNCHANGED <<config, disk, sched>>

\* lines 72-81: the first item of the window is downloaded, an error is
\* thrown on, and latest_download becomes its guid
UpdateBoundary(t, envs) ==
    /\ Alive
    /\ pc[t] = "boundary"
    /\ \E env \in envs :
        LET item == Head(cyc[t].items)
            out == Download(item, env)
            c == [cyc[t] EXCEPT !.feed = <<>>, !.items = Tail(@),
                                !.tried = @ + 1, !.boundary = Some(item)]
        IN  /\ files' = [files EXCEPT ![PathOf(t)] = Written(@, out)]
            /\ IF out.result \notin {"true", "false"}
               THEN /\ Return(t, [c EXCEPT !.errs = @ + 1], <<"Err", out.result>>)
                    /\ UNCHANGED cushion
               ELSE LET d == [c EXCEPT !.downloaded = IF out.result = "true" THEN @ + 1 ELSE @]
                    IN  /\ cushion' = [cushion EXCEPT
                               ![t] = Some([@[1] EXCEPT !.latest_download = NewMarker(item)])]
                        /\ IF d.items = <<>>
                           THEN Finish(t, d)
                           ELSE /\ pc' = [pc EXCEPT ![t] = "rest"]
                                /\ cyc' = [cyc EXCEPT ![t] = d]
    /\ UNCHANGED <<config, disk, sched>>

\* lines 83-88: the next item of the window is downloaded; only Ok(true)
\* counts
UpdateRest(t, envs) ==
    /\ Alive
    /\ pc[t] = "rest"
    /\ \E env \in envs :
        LET item == Head(cyc[t].items)
            out == Download(item, env)
            c == [cyc[t] EXCEPT !.items = Tail(@), !.tried = @ + 1,
                                !.errs = IF out.result \in {"true", "false"} THEN @ ELSE @ + 1,
                                !.downloaded = IF out.result = "true" THEN @ + 1 ELSE @]
        IN  /\ files' = [files EXCEPT ![PathOf(t)] = Written(@, out)]
            /\ IF c.items = <<>>
               THEN Finish(t, c)
               ELSE /\ pc' = [pc EXCEPT ![t] = "rest"]
                    /\ cyc' = [cyc EXCEPT ![t] = c]
    /\ UNCHANGED <<config, disk, cushion, sched>>

\* Saved with the cushion as it was when update was called
SavedStale(t) == ToToml(cyc[t].pre[1])

\* line 112: what save writes, the cushion of the task serialised
Saved(t) == ToToml(cushion[t][1])

\* Cushion::save, called at line 91: File::create fails, or the file is
\* truncated and then the write fails, or the file holds the cushion
UpdateSave(t) ==
    /\ Alive
    /\ pc[t] = "save"
    /\ LET c == [cyc[t] EXCEPT !.saves = @ + 1]
       IN  \/ /\ disk' = [disk EXCEPT ![PathOf(t)] = Some(Saved(t))]
              /\ Return(t, c, <<"Ok", c.downloaded>>)
           \/ /\ disk' = [disk EXCEPT ![PathOf(t)] = Some(EmptyFile)]
              /\ Return(t, c, <<"Err", "IoError">>)
           \/ /\ UNCHANGED disk
              /\ Return(t, c, <<"Err", "IoError">>)
    /\ UNCHANGED <<config, files, cushion, sched>>

-----------------------------------------------------------------------------
(* src/src/commands.rs: start *)

\* the feeds a fetch returns while several boards are polled: empty, one
\* item, a newer item before it
PollFeeds ==
    LET a == [guid |-> Some("a"), description |-> Some(DescrImg)]
        b == [guid |-> Some("b"), description |-> Some(DescrNoImg)]
    IN  {<<>>, <<a>>, <<b, a>>}

\* TaskLoop with a loop that an error of update leaves
TaskLoopEndsOnError(t) ==
    /\ Alive
    /\ pc[t] = "returned"
    /\ pc' = [pc EXCEPT ![t] = IF cyc[t].result[1][1] = "Err" THEN "cancelled" ELSE "recv"]
    /\ cyc' = [cyc EXCEPT ![t] = [NoCycle EXCEPT !.prev = cyc[t].result[1][1],
                                                !.pending = unseen[t] /\ chan.value]]
    /\ UNCHANGED <<config, disk, files, cushion, sched>>

\* TaskLoop with a receiver that forgets the ticks of the time the cycle ran
TaskLoopDropsTicks(t) ==
    /\ Alive
    /\ pc[t] = "returned"
    /\ pc' = [pc EXCEPT ![t] = "recv"]
    /\ cyc' = [cyc EXCEPT ![t] = [NoCycle EXCEPT !.prev = cyc[t].result[1][1]]]
    /\ unseen' = [unseen EXCEPT ![t] = @ /\ ~chan.value]
    /\ UNCHANGED <<config, disk, files, cushion, chan, driver, cancel, main>>

\* lines 31-35 of the spawned task: update has returned, an error is
\* printed, the loop goes back to rx.recv()
TaskLoop(t) ==
    /\ Alive
    /\ pc[t] = "returned"
    /\ pc' = [pc EXCEPT ![t] = "recv"]
    /\ cyc' = [cyc EXCEPT ![t] = [NoCycle EXCEPT !.prev = cyc[t].result[1][1],
                                                !.pending = unseen[t] /\ chan.value]]
    /\ UNCHANGED <<config, disk, files, cushion, sched>>

\* TaskRecv with a loop that goes on for any value received
TaskRecvAnyValue(t) ==
    /\ Alive
    /\ pc[t] = "recv"
    /\ \/ /\ unseen[t]
          /\ unseen' = [unseen EXCEPT ![t] = FALSE]
          /\ pc' = [pc EXCEPT ![t] = "update"]
       \/ /\ ~unseen[t]
          /\ chan.closed
          /\ pc' = [pc EXCEPT ![t] = "cancelled"]
          /\ UNCHANGED unseen
    /\ UNCHANGED <<config, disk, files, cushion, cyc, chan, driver, cancel, main>>

\* line 31, rx.recv() of a tokio 0.2 watch receiver: a value the receiver
\* has not returned yet is returned at once (the initial value included),
\* else None once the sender is dropped, else it waits. Some(true) calls
\* update; Some(false) and None leave the loop and the task ends.
TaskRecv(t) ==
    /\ Alive
    /\ pc[t] = "recv"
    /\ \/ /\ unseen[t]
          /\ unseen' = [unseen EXCEPT ![t] = FALSE]
          /\ pc' = [pc EXCEPT ![t] = IF chan.value THEN "update" ELSE "cancelled"]
       \/ /\ ~unseen[t]
          /\ chan.closed
          /\ pc' = [pc EXCEPT ![t] = "cancelled"]
          /\ UNCHANGED unseen
    /\ UNCHANGED <<config, disk, files, cushion, cyc, chan, driver, cancel, main>>

\* a receiver of the watch channel exists: the rx of start (dropped at line
\* 61, or when start returns), or the clone of a task that has not ended
Receivers ==
    (IF main.at = "load" THEN {0} ELSE {})
        \cup {t \in Tasks : pc[t] \notin {"unspawned", "cancelled"}}

\* tx.broadcast(v): an error without receivers, else every receiver has a
\* new value to return
Broadcast(v) ==
    IF Receivers = {}
    THEN UNCHANGED <<chan, unseen>>
    ELSE /\ chan' = [chan EXCEPT !.value = v]
         /\ unseen' = [t \in Tasks |-> TRUE]

\* lines 51-53: the interval ticks, true is broadcast, an error is ignored
DriverTick ==
    /\ Alive
    /\ driver = "select"
    /\ Broadcast(TRUE)
    /\ UNCHANGED <<config, disk, files, cushion, pc, cyc, driver, cancel, main>>

\* lines 54-57: the cancellation is received, false is broadcast (a panic
\* without receivers), the loop is left and tx is dropped
DriverCancel ==
    /\ Alive
    /\ driver = "select"
    /\ cancel = "sent"
    /\ IF Receivers = {}
       THEN /\ driver' = "panicked"
            /\ chan' = [chan EXCEPT !.closed = TRUE]
            /\ UNCHANGED unseen
       ELSE /\ driver' = "done"
            /\ chan' = [value |-> FALSE, closed |-> TRUE]
            /\ unseen' = [t \in Tasks |-> TRUE]
    /\ UNCHANGED <<config, disk, files, cushion, pc, cyc, cancel, main>>

\* lines 26-41: the next board is loaded and its task spawned with a clone
\* of rx; an error of load is thrown on, which drops tx and rx
MainLoad ==
    /\ main.at = "load"
    /\ main.i <= Len(config)
    /\ LET i == main.i
           k == config[i]
           loaded == Load(disk[ConstructPath(k.user, k.board)])
       IN  IF loaded = None
           THEN /\ main' = [main EXCEPT !.at = "err"]
                /\ chan' = [chan EXCEPT !.closed = TRUE]
                /\ UNCHANGED <<cushion, pc, unseen>>
           ELSE /\ cushion' = [cushion EXCEPT ![i] = loaded]
                /\ pc' = [pc EXCEPT ![i] = "recv"]
                /\ unseen' = [unseen EXCEPT ![i] = TRUE]
                /\ main' = [main EXCEPT !.i = i + 1]
                /\ UNCHANGED chan
    /\ UNCHANGED <<config, disk, files, cyc, driver, cancel>>

\* lines 43-61: all boards are loaded; the ticking task is spawned, rx is
\* dropped
MainSpawnDriver ==
    /\ main.at = "load"
    /\ main.i > Len(config)
    /\ driver' = "select"
    /\ main' = [at |-> "read", i |-> 1]
    /\ UNCHANGED <<config, disk, files, cushion, pc, cyc, chan, unseen, cancel>>

\* lines 63-73: a line is read: an error is thrown on, "stop" sends the
\* cancellation, anything else is answered with the hint
MainRead ==
    /\ main.at = "read"
    /\ \/ /\ main' = [main EXCEPT !.at = "err"]
          /\ cancel' = "dropped"
       \/ /\ main' = [at |-> "join", i |-> 1]
          /\ cancel' = "sent"
       \/ UNCHANGED <<main, cancel>>
    /\ UNCHANGED <<config, disk, files, cushion, pc, cyc, chan, unseen, driver>>

\* MainJoin with handles that are dropped, not awaited
MainJoinNoWait ==
    /\ main.at = "join"
    /\ main.i <= Len(config)
    /\ main' = [main EXCEPT !.i = @ + 1]
    /\ UNCHANGED <<config, disk, files, cushion, pc, cyc, chan, unseen, driver, cancel>>

\* lines 75-77: the next handle is awaited; it resolves when its task has
\* ended
MainJoin ==
    /\ main.at = "join"
    /\ main.i <= Len(config)
    /\ pc[main.i] = "cancelled"
    /\ main' = [main EXCEPT !.i = @ + 1]
    /\ UNCHANGED <<config, disk, files, cushion, pc, cyc, chan, unseen, driver, cancel>>

\* line 78: every handle is joined, start returns Ok
MainReturn ==
    /\ main.at = "join"
    /\ main.i > Len(config)
    /\ main' = [main EXCEPT !.at = "ok"]
    /\ UNCHANGED <<config, disk, files, cushion, pc, cyc, chan, unseen, driver, cancel>>

\* main.rs lines 17-30: start has returned, main returns and the runtime
\* with every task still on it is dropped
ProcessExit ==
    /\ main.at \in {"ok", "err"}
    /\ main' = [main EXCEPT !.at = "exited"]
    /\ UNCHANGED <<config, disk, files, cushion, pc, cyc, chan, unseen, driver, cancel>>

-----------------------------------------------------------------------------
(* The program: start on a configuration *)

\* the file of board k as a save with latest_download = m has written it
Stored(k, m) ==
    Some(ToToml([NewCushion(k.user, k.board, k.board) EXCEPT !.latest_download = m]))

\* the disks the program may find: each board directory holds no
\* .cushion.toml, or one with an empty latest_download
Disks ==
    {d \in [Paths -> {None} \cup {Stored(k, "") : k \in BoardKeys}] :
        \A k \in BoardKeys : d[ConstructPath(k.user, k.board)] \in {None, Stored(k, "")}}

\* the configurations add builds: no board, one, two, the same board twice
Configs ==
    LET p1 == [user |-> "u", board |-> "p1"]
        p2 == [user |-> "u", board |-> "p2"]
    IN  {<<>>, <<p1>>, <<p1, p2>>, <<p1, p1>>}

\* the Cushion that add_board returns and add drops: Cushion has no Drop
\* impl, so dropping it writes nothing
DropCushion(d, c) == d

\* main with "add": Config::add_board pushes the board (no check for one
\* already there) and builds its Cushion with Cushion::new, commands::add
\* drops it, main saves the configuration
Add(k, url) ==
    /\ main.at = "cli"
    /\ Append(config, k) \in Configs
    /\ config' = Append(config, k)
    /\ disk' = DropCushion(disk, NewCushion(k.user, k.board, url))
    /\ cushion' = Append(cushion, None)
    /\ pc' = Append(pc, "unspawned")
    /\ cyc' = Append(cyc, NoCycle)
    /\ unseen' = Append(unseen, FALSE)
    /\ UNCHANGED <<files, chan, driver, cancel, main>>

\* main with "start": commands::start begins with the boards of the
\* configuration
Start ==
    /\ main.at = "cli"
    /\ main' = [at |-> "load", i |-> 1]
    /\ UNCHANGED <<config, disk, files, cushion, pc, cyc, chan, unseen, driver, cancel>>

\* no call of download.rs is looked at on its own
NoCall == [fn |-> "none"]

\* the server holds no item yet and nothing was downloaded:
\*   feed       the feed the server holds
\*   got        the ids downloaded in the cycles that have returned
\*   now[t]     the ids downloaded in the running cycle of task t
\*   before[t]  got, as it was when that cycle began
NoHist == [feed |-> <<>>, got |-> {}, now |-> <<{}, {}>>, before |-> <<{}, {}>>]

\* the program before any command: no board in the configuration
Boot ==
    /\ config = <<>>
    /\ files = [p \in Paths |-> {}]
    /\ cushion = <<>>
    /\ pc = <<>>
    /\ cyc = <<>>
    /\ chan = [value |-> TRUE, closed |-> FALSE]
    /\ unseen = <<>>
    /\ driver = "unspawned"
    /\ cancel = "open"
    /\ main = [at |-> "cli", i |-> 1]

Init ==
    /\ Boot
    /\ disk \in Disks
    /\ call = NoCall
    /\ hist = NoHist

Next ==
    \/ \E k \in BoardKeys : \E url \in {k.board} \cup FullUrls : Add(k, url) /\ UNCHANGED aside
    \/ Start /\ UNCHANGED aside
    \/ MainLoad /\ UNCHANGED aside
    \/ MainSpawnDriver /\ UNCHANGED aside
    \/ MainRead /\ UNCHANGED aside
    \/ MainJoin /\ UNCHANGED aside
    \/ MainReturn /\ UNCHANGED aside
    \/ ProcessExit /\ UNCHANGED aside
    \/ DriverTick /\ UNCHANGED aside
    \/ DriverCancel /\ UNCHANGED aside
    \/ \E t \in Tasks : TaskRecv(t) /\ UNCHANGED aside
    \/ \E t \in Tasks : UpdateFetch(t, PollFeeds) /\ UNCHANGED aside
    \/ \E t \in Tasks : UpdateBoundary(t, PollEnvs) /\ UNCHANGED aside
    \/ \E t \in Tasks : UpdateRest(t, PollEnvs) /\ UNCHANGED aside
    \/ \E t \in Tasks : UpdateSave(t) /\ UNCHANGED aside
    \/ \E t \in Tasks : TaskLoop(t) /\ UNCHANGED aside

Spec == Init /\ [][Next]_vars

\* a step of the task of the t-th board
TaskStep(t) ==
    /\ t \in Tasks
    /\ \/ TaskRecv(t)
       \/ UpdateFetch(t, PollFeeds)
       \/ UpdateBoundary(t, PollEnvs)
       \/ UpdateRest(t, PollEnvs)
       \/ UpdateSave(t)
       \/ TaskLoop(t)
    /\ UNCHANGED aside

\* the tasks a configuration can have
TaskSlots == UNION {DOMAIN c : c \in Configs}

\* The program on a runtime that keeps polling every task that can go on:
\* a call of update returns, a task at rx.recv() with a value to take takes
\* it, the ticking task takes the cancellation, start joins a handle that
\* has resolved and returns. Nothing makes the operator type, the interval
\* tick, or the process end.
FairSpec ==
    /\ Spec
    /\ \A t \in TaskSlots : WF_vars(TaskStep(t))
    /\ WF_vars(DriverCancel /\ UNCHANGED aside)
    /\ WF_vars(MainJoin /\ UNCHANGED aside)
    /\ WF_vars(MainReturn /\ UNCHANGED aside)

-----------------------------------------------------------------------------
(* One board, polled cycle after cycle, with every feed up to MaxFeedLen *)

\* line 32: update is called on the cushion of the task
CycleBegin(t) ==
    /\ pc[t] = "recv"
    /\ pc' = [pc EXCEPT ![t] = "update"]
    /\ UNCHANGED <<config, disk, files, cushion, cyc, sched>>

CycleInit ==
    /\ config = <<[user |-> "u", board |-> "p1"]>>
    /\ disk = [p \in Paths |-> IF p = ConstructPath("u", "p1")
                               THEN Stored([user |-> "u", board |-> "p1"], "")
                               ELSE None]
    /\ files = [p \in Paths |-> {}]
    /\ cushion = [t \in Tasks |-> Load(disk[ConstructPath("u", "p1")])]
    /\ pc = [t \in Tasks |-> "recv"]
    /\ cyc = [t \in Tasks |-> NoCycle]
    /\ chan = [value |-> TRUE, closed |-> FALSE]
    /\ unseen = [t \in Tasks |-> FALSE]
    /\ driver = "select"
    /\ cancel = "open"
    /\ main = [at |-> "read", i |-> 1]
    /\ call = NoCall
    /\ hist = NoHist

CycleNext ==
    \/ \E t \in Tasks : CycleBegin(t) /\ UNCHANGED aside
    \/ \E t \in Tasks : UpdateFetch(t, Feeds) /\ UNCHANGED aside
    \/ \E t \in Tasks : UpdateBoundary(t, NetEnvs) /\ UNCHANGED aside
    \/ \E t \in Tasks : UpdateRest(t, NetEnvs) /\ UNCHANGED aside
    \/ \E t \in Tasks : UpdateSave(t) /\ UNCHANGED aside
    \/ \E t \in Tasks : TaskLoop(t) /\ UNCHANGED aside

CycleSpec == CycleInit /\ [][CycleNext]_vars

-----------------------------------------------------------------------------
(* The board u/p1 over several runs of start: its server prepends items to
   the feed, start is stopped between cycles and run again *)

MaxServed == 2

\* the ids of the items the server publishes, oldest first
NewIds == <<"a", "b", "c">>

ServedItem(id) == [guid |-> Some(id), description |-> Some(DescrImg)]

RestartInit ==
    /\ config \in {<<[user |-> "u", board |-> "p1"]>>,
                   <<[user |-> "u", board |-> "p1"], [user |-> "u", board |-> "p1"]>>}
    /\ disk = [p \in Paths |-> IF p = ConstructPath("u", "p1")
                               THEN Stored([user |-> "u", board |-> "p1"], "")
                               ELSE None]
    /\ files = [p \in Paths |-> {}]
    /\ cushion = [t \in Tasks |-> None]
    /\ pc = [t \in Tasks |-> "unspawned"]
    /\ cyc = [t \in Tasks |-> NoCycle]
    /\ chan = [value |-> TRUE, closed |-> FALSE]
    /\ unseen = [t \in Tasks |-> FALSE]
    /\ driver = "unspawned"
    /\ cancel = "open"
    /\ main = [at |-> "load", i |-> 1]
    /\ call = NoCall
    /\ hist = NoHist

\* the server puts a new item, with a new id, before the others
Publish ==
    /\ Len(hist.feed) < MaxServed
    /\ hist' = [hist EXCEPT !.feed = <<ServedItem(NewIds[Len(@) + 1])>> \o @]
    /\ UNCHANGED <<code, call>>

\* a cycle of task t begins
PollBegin(t) ==
    /\ CycleBegin(t)
    /\ hist' = [hist EXCEPT !.before[t] = hist.got, !.now[t] = {}]
    /\ UNCHANGED call

\* the fetch of line 61 returns the feed the server holds
PollFetch(t) ==
    /\ UpdateFetch(t, {hist.feed})
    /\ hist' = IF pc'[t] = "returned" THEN [hist EXCEPT !.now[t] = {}] ELSE hist
    /\ UNCHANGED call

\* hist after a step of update of task t: a download that has succeeded is
\* noted, and with the return of update the downloads of the cycle
Noted(t) ==
    LET ids == IF cyc'[t].downloaded > cyc[t].downloaded
               THEN hist.now[t] \cup {UnwrapOr(Head(cyc[t].items).guid, "")}
               ELSE hist.now[t]
    IN  IF pc'[t] = "returned"
        THEN [hist EXCEPT !.got = @ \cup ids, !.now[t] = {}]
        ELSE [hist EXCEPT !.now[t] = ids]

PollBoundary(t) ==
    /\ UpdateBoundary(t, PollEnvs)
    /\ hist' = Noted(t)
    /\ UNCHANGED call

PollRest(t) ==
    /\ UpdateRest(t, PollEnvs)
    /\ hist' = Noted(t)
    /\ UNCHANGED call

PollSave(t) ==
    /\ UpdateSave(t)
    /\ hist' = Noted(t)
    /\ UNCHANGED call

\* "stop" between two cycles, and start run again: every task has ended at
\* rx.recv() and its Cushion is dropped, the boards are loaded anew
Restart ==
    /\ main.at = "load"
    /\ main.i > Len(config)
    /\ \A t \in Tasks : pc[t] = "recv"
    /\ main' = [at |-> "load", i |-> 1]
    /\ cushion' = [t \in Tasks |-> None]
    /\ pc' = [t \in Tasks |-> "unspawned"]
    /\ cyc' = [t \in Tasks |-> NoCycle]
    /\ unseen' = [t \in Tasks |-> FALSE]
    /\ UNCHANGED <<config, disk, files, chan, driver, cancel, aside>>

RestartNext ==
    \/ MainLoad /\ UNCHANGED aside
    \/ Publish
    \/ Restart
    \/ \E t \in Tasks : PollBegin(t)
    \/ \E t \in Tasks : PollFetch(t)
    \/ \E t \in Tasks : PollBoundary(t)
    \/ \E t \in Tasks : PollRest(t)
    \/ \E t \in Tasks : PollSave(t)
    \/ \E t \in Tasks : TaskLoop(t) /\ UNCHANGED aside

RestartSpec == RestartInit /\ [][RestartNext]_vars

-----------------------------------------------------------------------------
(* download_pin on its own: one call, for every answer of the eight urls *)

\* every way the world can answer a call of download_pin
AllWorlds ==
    {World(r, b, io) : r \in [1..Len(EXTENSIONS) -> {"ok", "status", "neterr"}],
                      b \in BOOLEAN, io \in {"ok", "create", "write"}}

DownloadInit ==
    /\ Boot
    /\ disk = [p \in Paths |-> None]
    /\ hist = NoHist
    /\ call \in {[fn |-> "download_pin", descr |-> d, env |-> e, out |-> None] :
                    d \in {DescrNoImg, DescrImg}, e \in AllWorlds}

\* download_pin is called and returns
DownloadCall ==
    /\ call.out = None
    /\ call' = [call EXCEPT !.out = Some(DownloadPin(call.descr, call.env))]
    /\ UNCHANGED <<code, hist>>

DownloadNext == DownloadCall

DownloadSpec == DownloadInit /\ [][DownloadNext]_vars

-----------------------------------------------------------------------------
(* url_base_from_description on its own: one call, for descriptions built
   around an img tag *)

MaxPad == 2

\* the pieces a description is padded with
Pieces == {IMG, "/", ".", Q, " ", "\n", "x"}

\* what stands before an img tag (no other text of the regex), and after it
PadsBefore == SeqsUpTo(Pieces \ {IMG}, MaxPad)
PadsAfter == SeqsUpTo(Pieces, MaxPad)

\* the paths of the images: <size>/<path>.<ext>
ImagePaths == {<<"e15feb">>, <<"e1", "/", "e15feb">>}

\* <img src="https://i.pinimg.com/236x/<path>.jpg">
PinimgTag(path) == <<"<", IMG, "/", "236x", "/">> \o path \o <<".", "jpg", Q, ">">>

\* <img src="https://example.com/236x/<path>.jpg">
OtherTag(path) ==
    <<"<", "img", " ", "src=", Q, "https:", "/", "/", "example", ".", "com", "/", "236x", "/">>
        \o path \o <<".", "jpg", Q, ">">>

\* the fourth description of tests::test_url_replace, the numbers cut
TestWithNewline ==
    <<"<a", " ", "href=", Q, "https:", "/", "/", "www", ".", "pinterest", ".", "de", "/",
      "pin", "/", "534", "/", Q, ">", "\n", " ", " ", "<", IMG, "/", "236x", "/", "e3", "/",
      "b9", "/", "21", "/", "e3b921", ".", "jpg", Q, ">", "<", "/", "a>">>

\* the base the image at path has: https://i.pinimg.com/originals/<path>.
OriginalsBase(path) == <<HOST, "/", "originals", "/">> \o path \o <<".">>

\* the calls: the description, and what is wanted for it
RegexCalls ==
    {[fn |-> "url_base_from_description", content |-> pre \o PinimgTag(path) \o post,
      want |-> Some(OriginalsBase(path)), out |-> None] :
        pre \in PadsBefore, path \in ImagePaths, post \in PadsAfter}
    \cup
    {[fn |-> "url_base_from_description", content |-> pre \o OtherTag(path) \o post,
      want |-> None, out |-> None] :
        pre \in PadsBefore, path \in ImagePaths, post \in PadsBefore}
    \cup
    {[fn |-> "url_base_from_description", content |-> pre \o DescrNoImg \o post,
      want |-> None, out |-> None] :
        pre \in PadsBefore, post \in PadsBefore}
    \cup
    {[fn |-> "url_base_from_description", content |-> TestWithNewline,
      want |-> Some(OriginalsBase(<<"e3", "/", "b9", "/", "21", "/", "e3b921">>)),
      out |-> None]}

RegexInit ==
    /\ Boot
    /\ disk = [p \in Paths |-> None]
    /\ hist = NoHist
    /\ call \in RegexCalls

\* url_base_from_description is called and returns
RegexCall ==
    /\ call.out = None
    /\ call' = [call EXCEPT !.out = Some(UrlBaseFromDescription(call.content))]
    /\ UNCHANGED <<code, hist>>

RegexNext == RegexCall

RegexSpec == RegexInit /\ [][RegexNext]_vars

-----------------------------------------------------------------------------
(* What the specification says of a cycle, in its own terms *)

\* an item's id equals the marker; an item without id equals none
IdEquals(item, marker) == item.guid # None /\ item.guid[1] = marker

\* the new-item window: the prefix of the feed before the first item whose
\* id equals the marker
RECURSIVE NewItemWindow(_, _)
NewItemWindow(feed, marker) ==
    IF feed = <<>> \/ IdEquals(Head(feed), marker)
    THEN <<>>
    ELSE <<Head(feed)>> \o NewItemWindow(Tail(feed), marker)

\* the marker a boundary item stands for
IdOf(item) == IF item.guid = None THEN "" ELSE item.guid[1]

Returned(t) == pc[t] = "returned"
ReturnedOk(t) == Returned(t) /\ cyc[t].result[1][1] = "Ok"
Count(t) == cyc[t].result[1][2]
Marker(t) == cushion[t][1].latest_download
MarkerBefore(t) == cyc[t].pre[1].latest_download
Persisted(t) == Load(disk[PathOf(t)])

-----------------------------------------------------------------------------
(* Claims *)

\* C1: the items a cycle processes are exactly the prefix of the feed before
\* the first item whose id equals the marker the cycle started with (the
\* whole feed for an empty marker); an item without id never equals it.
C1_WindowIsPrefix ==
    \A t \in Tasks :
        /\ cyc[t].fetched /\ cyc[t].tried = 0 =>
              cyc[t].items = NewItemWindow(cyc[t].feed, MarkerBefore(t))
        /\ ReturnedOk(t) => cyc[t].tried = cyc[t].winLen

\* C2: once the download of the boundary item has been attempted, with any
\* outcome, latest_download is the id of the boundary item.
C2_BoundaryAdvancesAlways ==
    \A t \in Tasks :
        cyc[t].boundary # None => Marker(t) = IdOf(cyc[t].boundary[1])

\* C3: a cycle that has changed latest_download has saved the board, and
\* after every cycle the persisted latest_download is the one in memory.
C3_AdvanceIsPersisted ==
    \A t \in Tasks :
        Returned(t) =>
            /\ Marker(t) # MarkerBefore(t) => cyc[t].saves >= 1
            /\ Persisted(t) # None
            /\ Persisted(t)[1].latest_download = Marker(t)

\* C4: when the newest item of the feed carries the marker (or the feed is
\* empty), update returns 0 without a download and without a save, and the
\* cushion and its file are what they were.
EmptyWindow(t) ==
    /\ cyc[t].fetched
    /\ cyc[t].tried = 0
    /\ cyc[t].feed = <<>> \/ IdEquals(Head(cyc[t].feed), MarkerBefore(t))

C4_EmptyWindowNoChange ==
    \A t \in Tasks :
        EmptyWindow(t) =>
            /\ Returned(t)
            /\ cyc[t].result = Some(<<"Ok", 0>>)
            /\ cyc[t].saves = 0
            /\ cushion[t] = cyc[t].pre
            /\ disk[PathOf(t)] = cyc[t].preFile

C4_Witness ==
    \E t \in Tasks :
        /\ Returned(t)
        /\ cyc[t].feed # <<>>
        /\ IdEquals(Head(cyc[t].feed), MarkerBefore(t))
        /\ MarkerBefore(t) = "a"
        /\ cyc[t].result = Some(<<"Ok", 0>>)

\* C5: a download that returns an error does not end the cycle: every item
\* of the window is still processed and update returns a count (unless the
\* save fails afterwards).
C5_ItemErrorsSwallowed ==
    \A t \in Tasks :
        Returned(t) /\ cyc[t].errs >= 1 =>
            /\ cyc[t].tried = cyc[t].winLen
            /\ cyc[t].result[1][1] = "Ok" \/ cyc[t].saves >= 1

\* C6, as stated: latest_download changes only in a cycle with at least one
\* successful download.
C6_ChangeNeedsDownload ==
    \A t \in Tasks :
        Returned(t) /\ Marker(t) # MarkerBefore(t) => cyc[t].downloaded >= 1

\* C6, amended: latest_download changes only in a cycle whose window is not
\* empty, and then to the id of the boundary item.
C6_ChangeNeedsNewItem ==
    \A t \in Tasks :
        cyc[t].pre # None /\ Marker(t) # MarkerBefore(t) =>
            /\ cyc[t].boundary # None
            /\ ~IdEquals(cyc[t].boundary[1], MarkerBefore(t))
            /\ Marker(t) = IdOf(cyc[t].boundary[1])

\* a cycle in which no download succeeded has advanced the marker
C6_Witness ==
    \E t \in Tasks :
        /\ Returned(t)
        /\ cyc[t].result = Some(<<"Ok", 0>>)
        /\ cyc[t].tried = 2
        /\ MarkerBefore(t) = "a"
        /\ Marker(t) = "b"

\* C7: when the fetch or the parse fails, update returns that error, no
\* item is downloaded, nothing is saved, latest_download is unchanged.
C7_FetchFailureNoChange ==
    \A t \in Tasks :
        Returned(t) /\ ~cyc[t].fetched =>
            /\ cyc[t].result \in {Some(<<"Err", "RemoteError">>), Some(<<"Err", "RssError">>)}
            /\ cyc[t].tried = 0
            /\ cyc[t].downloaded = 0
            /\ cyc[t].saves = 0
            /\ cushion[t] = cyc[t].pre
            /\ disk[PathOf(t)] = cyc[t].preFile

C7_Witness ==
    \E t \in Tasks :
        /\ Returned(t)
        /\ cyc[t].result = Some(<<"Err", "RssError">>)
        /\ Marker(t) = "a"

\* C8: after a cycle that returns a count >= 1, the persisted
\* latest_download is the id of the boundary item of that cycle.
C8_PersistedIsBoundary ==
    \A t \in Tasks :
        ReturnedOk(t) /\ Count(t) >= 1 =>
            /\ cyc[t].boundary # None
            /\ Persisted(t) # None
            /\ Persisted(t)[1].latest_download = IdOf(cyc[t].boundary[1])

\* the count is 1, from the second item: the boundary item held no image
C8_Witness ==
    \E t \in Tasks :
        /\ ReturnedOk(t)
        /\ Count(t) = 1
        /\ cyc[t].tried = 2
        /\ cyc[t].boundary[1] = [guid |-> Some("b"), description |-> Some(DescrNoImg)]
        /\ Persisted(t)[1].latest_download = "b"

\* C9: start has not returned Ok while a task is waiting for a tick or
\* running a cycle.
C9_StopJoinsAll ==
    main.at = "ok" => \A t \in Tasks : pc[t] = "cancelled"

C9_Witness ==
    /\ main.at = "ok"
    /\ Len(config) = 2
    /\ \E p \in Paths : disk[p] # None /\ Load(disk[p])[1].latest_download = "a"

\* C10: a task ends only from rx.recv(), never out of a cycle; once false
\* has been broadcast no task starts a cycle, the next recv of a task ends
\* it, and the process does not end before every task has.
Cancelled == driver = "done"

C10_CancelDrains ==
    [][\A t \in Tasks :
          /\ pc'[t] = "cancelled" /\ pc[t] # "cancelled" => pc[t] = "recv"
          /\ Cancelled /\ pc[t] = "recv" =>
                /\ pc'[t] \in {"recv", "cancelled"}
                /\ (unseen[t] /\ ~chan.value) \/ chan.closed
          /\ Cancelled /\ main'.at \in {"ok", "exited"} => pc'[t] = "cancelled"]_vars

\* false was broadcast while the task ran a cycle, unseen by it
C10_Witness ==
    /\ Cancelled
    /\ \E t \in Tasks : pc[t] = "save" /\ unseen[t] /\ ~chan.value

\* the task is inside a call of update
InCycle(t) == pc[t] \in {"update", "boundary", "rest", "save"}

\* C11: no two tasks run a cycle at the same time for one board, so no two
\* cycles write the same local path; also when the board was added twice.
C11_OneCyclePerBoard ==
    \A t, u \in Tasks : t # u /\ InCycle(t) /\ InCycle(u) => PathOf(t) # PathOf(u)

\* C12, as stated: a tick broadcast while the task ran a cycle is dropped,
\* the task starts a cycle only for a tick broadcast after it was back in
\* rx.recv().
C12_TickWhileRunningDropped ==
    [][\A t \in Tasks : pc[t] = "recv" /\ pc'[t] = "update" => ~cyc[t].pending]_vars

\* C12, amended: a tick broadcast while the task runs a cycle is kept for
\* the task until its next recv, which returns at once and starts one
\* further cycle; a recv starts a cycle exactly when a true is waiting,
\* whenever it was broadcast, and takes all that was waiting.
C12_TickWhileRunningKept ==
    [][\A t \in Tasks :
          /\ (InCycle(t) \/ pc[t] = "returned") /\ unseen[t] => unseen'[t]
          /\ pc[t] = "recv" /\ pc'[t] # "recv" =>
                /\ pc'[t] = "update" <=> unseen[t] /\ chan.value
                /\ ~unseen'[t]]_vars

\* a cycle was started for a tick broadcast before the last one returned
C12_Witness ==
    \E t \in Tasks : pc[t] = "update" /\ cyc[t].pending

\* C13: an error returned by update does not end the task: the task goes
\* back to rx.recv(), driver and start are left alone, the next tick starts
\* a cycle; the task ends only in recv, on false or on the closed channel.
C13_ErrorKeepsTask ==
    [][\A t \in Tasks :
          /\ pc[t] = "returned" => pc'[t] \in {"returned", "recv"}
          /\ pc'[t] = "returned" /\ pc[t] # "returned" =>
                /\ driver' = driver
                /\ main' = main
                /\ chan' = chan
          /\ (pc[t] = "recv" /\ cyc[t].prev = "Err" /\ unseen[t] /\ chan.value
                /\ pc'[t] # "recv") => pc'[t] = "update"
          /\ pc'[t] = "cancelled" /\ pc[t] # "cancelled" =>
                /\ pc[t] = "recv"
                /\ (unseen[t] /\ ~chan.value) \/ (~unseen[t] /\ chan.closed)]_vars

\* the cycle before this one returned an error
C13_Witness ==
    \E t \in Tasks : pc[t] = "update" /\ cyc[t].prev = "Err"

\* the directory of the i-th board of the configuration
BoardPath(i) == ConstructPath(config[i].user, config[i].board)

\* this step is a failure of a cycle of t: the fetch, the parse or the
\* download of the boundary item returns its error, or the error of a
\* later download is dropped
FailureStep(t) ==
    \/ /\ pc[t] \in {"update", "boundary"}
       /\ pc'[t] = "returned"
       /\ cyc'[t].result[1][1] = "Err"
    \/ /\ pc[t] = "rest"
       /\ cyc'[t].errs > cyc[t].errs

\* C14: a failure in a cycle of one board changes nothing of another
\* board: its Cushion, its state file, its directory, the position of its
\* task and the tick waiting for it; a task of another board that receives
\* a tick next to a failed cycle starts its cycle.
C14_FailureIsLocal ==
    [][\A t, u \in Tasks :
          config[t] # config[u] =>
              /\ FailureStep(t) =>
                    /\ cushion'[u] = cushion[u]
                    /\ pc'[u] = pc[u]
                    /\ cyc'[u] = cyc[u]
                    /\ unseen'[u] = unseen[u]
                    /\ disk'[BoardPath(u)] = disk[BoardPath(u)]
                    /\ files'[BoardPath(u)] = files[BoardPath(u)]
              /\ (pc[t] = "returned" /\ cyc[t].result[1][1] = "Err" /\ pc[u] = "recv"
                    /\ unseen[u] /\ chan.value /\ pc'[u] # "recv")
                    => pc'[u] = "update"]_vars

\* the cycle of one board has failed, the other board saves its marker
C14_Witness ==
    \E t, u \in Tasks :
        /\ config[t] # config[u]
        /\ pc[t] = "returned"
        /\ cyc[t].result[1][1] = "Err"
        /\ pc[u] = "save"

\* C15: with a feed that only grows at its head by items of new ids, no
\* item that was downloaded in a cycle of the board is downloaded again in a
\* cycle begun after that one had returned, whether start was stopped and
\* run again in between or not.
C15_NoSecondDownload ==
    [][\A t \in Tasks :
          cyc'[t].downloaded > cyc[t].downloaded =>
              IdOf(Head(cyc[t].items)) \notin hist.before[t]]_vars

\* C16: a board that add has put into the configuration has its state file,
\* so that start can load it.
C16_AddedBoardIsSaved ==
    \A i \in 1..Len(config) : Load(disk[BoardPath(i)]) # None

\* the extensions in the order the claim gives
ClaimedOrder == <<"jpg", "jpeg", "png", "webm", "tiff", "gif", "jfif", "jiff">>

\* C17: download_pin asks for base + extension in the order jpg, jpeg, png,
\* webm, tiff, gif, jfif, jiff; a status that is no success and a failed
\* send both lead to the next extension; the first success status is the
\* last request; false is returned exactly when all eight are used up,
\* true exactly when an extension had success and its body was saved (an
\* error when the body or the file fails), never an error for a failed
\* send.
C17_ProbeOrder ==
    call.fn = "download_pin" /\ call.out # None /\ UrlBaseFromDescription(call.descr) # None =>
        LET out == call.out[1]
            base == UrlBaseFromDescription(call.descr)[1]
            oks == {i \in 1..8 : call.env.resp[i] = "ok"}
            last == IF oks = {} THEN 8 ELSE Least(oks)
        IN  /\ out.requests = [i \in 1..last |-> base \o <<ClaimedOrder[i]>>]
            /\ out.result = "false" <=> oks = {}
            /\ out.result = "true" <=> oks # {} /\ call.env.body /\ call.env.io = "ok"
            /\ out.result \in {"true", "false", "RemoteError", "IoError"}
            /\ out.result = "true" => out.file = Some(<<"e15feb", ".", ClaimedOrder[last]>>)

\* jpg fails to send, jpeg is not found, png is saved; gif would have had
\* success too and is not asked for
C17_Witness ==
    /\ call.fn = "download_pin"
    /\ call.out # None
    /\ call.env.resp[1] = "neterr"
    /\ call.env.resp[2] = "status"
    /\ call.env.resp[3] = "ok"
    /\ call.env.resp[6] = "ok"
    /\ call.out[1].result = "true"
    /\ Len(call.out[1].requests) = 3

\* C18: in a cycle the first download is that of the boundary item, the
\* first item of the window; when the download of another item starts, that
\* of the boundary item has returned (true or false) and latest_download is
\* the id of the boundary item.
C18_BoundaryFirst ==
    [][\A t \in Tasks :
          cyc'[t].tried > cyc[t].tried =>
              IF cyc[t].tried = 0
              THEN /\ pc[t] = "boundary"
                   /\ cyc[t].boundary = None
                   /\ Len(cyc[t].items) = cyc[t].winLen
                   /\ cyc'[t].boundary = Some(Head(cyc[t].items))
              ELSE /\ pc[t] = "rest"
                   /\ cyc[t].boundary # None
                   /\ Len(cyc[t].items) = cyc[t].winLen - cyc[t].tried
                   /\ Marker(t) = IdOf(cyc[t].boundary[1])]_vars

\* the third item of a window is about to be downloaded; the boundary item
\* had no image and the marker is its id
C18_Witness ==
    \E t \in Tasks :
        /\ pc[t] = "rest"
        /\ cyc[t].tried = 2
        /\ cyc[t].winLen = 3
        /\ cyc[t].boundary[1] = [guid |-> Some("b"), description |-> Some(DescrNoImg)]
        /\ Marker(t) = "b"
        /\ MarkerBefore(t) = "a"

\* C19: for a description that holds an img tag of i.pinimg.com,
\* url_base_from_description returns https://i.pinimg.com/originals/<path>.
\* whatever stands before the tag (newlines too) and after it; for a
\* description without such a tag it returns None.
C19_CanonicalBase ==
    call.fn = "url_base_from_description" /\ call.out # None => call.out[1] = call.want

\* C20: once "stop" was read, the ticking task broadcasts false and ends,
\* every task ends and start returns, for every configuration, the one
\* without boards too.
C20_ShutdownLive ==
    (cancel = "sent") ~>
        /\ driver = "done"
        /\ \A t \in Tasks : pc[t] = "cancelled"
        /\ main.at \in {"ok", "exited"}

====
